---------------------------- MODULE Spec2Model ----------------------------
(***************************************************************************)
(* A model of igcls.py: the header extractor read_pilot_data and the       *)
(* report loop of main.                                                    *)
(*                                                                         *)
(* A Python str is modelled as the tuple of its characters, so that        *)
(* iterating a str (as tabulate does with each row it is given) yields its *)
(* characters, and strip/startswith/split are computed on the characters.  *)
(***************************************************************************)
EXTENDS Integers, Sequences, FiniteSets

VARIABLES
    \* ---- main: inputs (command line and environment)
    argsFiles,      \* args.files: the paths given with -f (<<>> when none)
    argsLong,       \* args.long
    fs,             \* the paths that exist on the filesystem
    analyzer,       \* what Flight.create_from_file does for each path
    \* ---- main: program state
    pc,             \* position in main
    igc_files,      \* the resolved selection
    idx,            \* 1-based position of the for loop in igc_files
    flight,         \* the flight object of the current file
    pilot_data,     \* read_pilot_data's list for the current file
    filename,       \* Path(file_path).name of the current file
    out,            \* everything printed so far, in order
    \* ---- read_pilot_data, run on its own
    rpc,            \* position in read_pilot_data
    scanned,        \* the lines the for loop has been given so far
    rec,            \* the nine local variables
    rfailed,        \* an exception was caught by the except clause
    rlog,           \* number of "Error reading header" lines printed
    rret            \* the returned list (<<>> before the return)

mainVars == <<argsFiles, argsLong, fs, analyzer, pc, igc_files, idx, flight,
              pilot_data, filename, out>>
rpdVars == <<rpc, scanned, rec, rfailed, rlog, rret>>
vars == <<argsFiles, argsLong, fs, analyzer, pc, igc_files, idx, flight,
          pilot_data, filename, out, rpc, scanned, rec, rfailed, rlog, rret>>

-----------------------------------------------------------------------------
(* Bounds *)

MaxLines == 3       \* lines a header file yields in the read_pilot_data runs
MaxFiles == 2       \* paths given with -f
MaxSegs == 1        \* thermals (and glides) the analyzer reports per flight

-----------------------------------------------------------------------------
(* String literals of the program, as character tuples *)

NA == <<"N", "/", "A">>
S_Exception == <<"E", "x", "c", "e", "p", "t", "i", "o", "n">>
S_Valid == <<"V", "a", "l", "i", "d">>
S_Invalid == <<"I", "n", "v", "a", "l", "i", "d">>
S_Empty == <<>>

K_HFFTYFRTYPE == <<"H", "F", "F", "T", "Y", "F", "R", "T", "Y", "P", "E">>
K_HFRFWFIRMWAREVERSION ==
    <<"H", "F", "R", "F", "W", "F", "I", "R", "M", "W", "A", "R", "E", "V",
      "E", "R", "S", "I", "O", "N">>
K_HFPRSPRESSALTSENSOR ==
    <<"H", "F", "P", "R", "S", "P", "R", "E", "S", "S", "A", "L", "T", "S",
      "E", "N", "S", "O", "R">>
K_HFPLTPILOTINCHARGE ==
    <<"H", "F", "P", "L", "T", "P", "I", "L", "O", "T", "I", "N", "C", "H",
      "A", "R", "G", "E">>
K_HOSITSite == <<"H", "O", "S", "I", "T", "S", "i", "t", "e">>
K_HOCCLCOMPETITION_CLASS ==
    <<"H", "O", "C", "C", "L", "C", "O", "M", "P", "E", "T", "I", "T", "I",
      "O", "N", " ", "C", "L", "A", "S", "S">>
K_HFGTYGLIDERTYPE ==
    <<"H", "F", "G", "T", "Y", "G", "L", "I", "D", "E", "R", "T", "Y", "P", "E">>
K_HODTM100GPSDATUM ==
    <<"H", "O", "D", "T", "M", "1", "0", "0", "G", "P", "S", "D", "A", "T",
      "U", "M">>
K_HFALPALTPRESSURE ==
    <<"H", "F", "A", "L", "P", "A", "L", "T", "P", "R", "E", "S", "S", "U",
      "R", "E">>

-----------------------------------------------------------------------------
(* str methods used by read_pilot_data *)

Whitespace == {" ", "\t", "\n", "\r"}

RECURSIVE LStrip(_)
LStrip(s) ==
    IF s = <<>> THEN s
    ELSE IF Head(s) \in Whitespace THEN LStrip(Tail(s)) ELSE s

RECURSIVE RStrip(_)
RStrip(s) ==
    IF s = <<>> THEN s
    ELSE IF s[Len(s)] \in Whitespace THEN RStrip(SubSeq(s, 1, Len(s) - 1)) ELSE s

\* str.strip()
Strip(s) == RStrip(LStrip(s))

\* str.startswith(c) for a one-character prefix
StartsWith(s, c) == Len(s) >= 1 /\ s[1] = c

\* c in s
Contains(s, c) == \E i \in DOMAIN s : s[i] = c

RECURSIVE Find(_, _, _)
\* str.find(c) from position i on (0 when absent)
Find(s, c, i) ==
    IF i > Len(s) THEN 0
    ELSE IF s[i] = c THEN i ELSE Find(s, c, i + 1)

\* str.split(c, 1) of a string that contains c: <<before, after>>
Split1(s, c) ==
    LET i == Find(s, c, 1)
    IN  <<SubSeq(s, 1, i - 1), SubSeq(s, i + 1, Len(s))>>

-----------------------------------------------------------------------------
(* read_pilot_data *)

\* lines 29-37: every local starts at the sentinel
InitialRec ==
    [device |-> NA, firmware |-> NA, sensor |-> NA, pilot |-> NA, site |-> NA,
     compclass |-> NA, glider |-> NA, gpsdatum |-> NA, pressuredatum |-> NA]

\* A plausible slip: the first occurrence of a key wins.
MatchKey_FirstWins(r, key, value) ==
    CASE key = K_HFFTYFRTYPE /\ r.device = NA -> [r EXCEPT !.device = value]
      [] key = K_HFRFWFIRMWAREVERSION /\ r.firmware = NA -> [r EXCEPT !.firmware = value]
      [] key = K_HFPRSPRESSALTSENSOR /\ r.sensor = NA -> [r EXCEPT !.sensor = value]
      [] key = K_HFPLTPILOTINCHARGE /\ r.pilot = NA -> [r EXCEPT !.pilot = value]
      [] key = K_HOSITSite /\ r.site = NA -> [r EXCEPT !.site = value]
      [] key = K_HOCCLCOMPETITION_CLASS /\ r.compclass = NA -> [r EXCEPT !.compclass = value]
      [] key = K_HFGTYGLIDERTYPE /\ r.glider = NA -> [r EXCEPT !.glider = value]
      [] key = K_HODTM100GPSDATUM /\ r.gpsdatum = NA -> [r EXCEPT !.gpsdatum = value]
      [] key = K_HFALPALTPRESSURE /\ r.pressuredatum = NA -> [r EXCEPT !.pressuredatum = value]
      [] OTHER -> r

\* lines 52-70: the match statement
MatchKey(r, key, value) ==
    CASE key = K_HFFTYFRTYPE -> [r EXCEPT !.device = value]
      [] key = K_HFRFWFIRMWAREVERSION -> [r EXCEPT !.firmware = value]
      [] key = K_HFPRSPRESSALTSENSOR -> [r EXCEPT !.sensor = value]
      [] key = K_HFPLTPILOTINCHARGE -> [r EXCEPT !.pilot = value]
      [] key = K_HOSITSite -> [r EXCEPT !.site = value]
      [] key = K_HOCCLCOMPETITION_CLASS -> [r EXCEPT !.compclass = value]
      [] key = K_HFGTYGLIDERTYPE -> [r EXCEPT !.glider = value]
      [] key = K_HODTM100GPSDATUM -> [r EXCEPT !.gpsdatum = value]
      [] key = K_HFALPALTPRESSURE -> [r EXCEPT !.pressuredatum = value]
      [] OTHER -> r

\* lines 42-70: the body of the for loop, for one line
ProcessLine(r, line) ==
    LET l == Strip(line)
    IN  IF ~StartsWith(l, "H") THEN r
        ELSE IF ~Contains(l, ":") THEN r
        ELSE LET kv == Split1(l, ":")
             IN  MatchKey(r, kv[1], Strip(kv[2]))

\* lines 77-89: the returned list
HeaderData(r) ==
    <<r.pilot, r.glider, r.compclass, r.site, r.device, r.sensor, r.firmware,
      r.gpsdatum, r.pressuredatum>>

RECURSIVE ScanLines(_, _)
\* lines 41-70: the for loop over the lines the file yields
ScanLines(r, lines) ==
    IF lines = <<>> THEN r
    ELSE ScanLines(ProcessLine(r, Head(lines)), Tail(lines))

\* read_pilot_data as main sees it: the list it returns for a file that
\* yields `lines` and then either ends or fails
ReadPilotData(lines) == HeaderData(ScanLines(InitialRec, lines))

-----------------------------------------------------------------------------
(* The lines a header file may hold *)

V_Al == <<"A", "l">>
V_Bo == <<"B", "o">>
V_G1 == <<"G", ":", "1">>
NL == <<"\n">>
Colon == <<":">>

HeaderLines ==
    { K_HFPLTPILOTINCHARGE \o Colon \o V_Al \o NL,
      <<" ", "\t">> \o K_HFPLTPILOTINCHARGE \o Colon \o <<" ">> \o V_Bo \o <<" ", "\r">> \o NL,
      K_HFGTYGLIDERTYPE \o Colon \o V_G1 \o NL,
      K_HFPLTPILOTINCHARGE \o NL,
      <<"B", "1">> \o Colon \o V_Al \o NL,
      <<"H", "X">> \o Colon \o <<"z">> \o NL,
      K_HFPLTPILOTINCHARGE \o <<" ">> \o Colon \o <<"C", "y">> \o NL,
      NL,
      K_HFPLTPILOTINCHARGE \o Colon \o NL,
      K_HFFTYFRTYPE \o Colon \o <<"D">>,
      K_HFRFWFIRMWAREVERSION \o Colon \o <<"1", ".", "2">> \o NL,
      K_HFPRSPRESSALTSENSOR \o Colon \o <<"S">> \o NL,
      K_HOSITSite \o Colon \o <<"M", "t">> \o NL,
      K_HOCCLCOMPETITION_CLASS \o Colon \o <<"E", "N", " ", "A">> \o NL,
      K_HODTM100GPSDATUM \o Colon \o <<"W", "G", "S">> \o NL,
      K_HFALPALTPRESSURE \o Colon \o <<"I", "S", "A">> \o NL }

-----------------------------------------------------------------------------
(* read_pilot_data run on its own, one line at a time *)

\* line 40: open() succeeds
RpdOpen ==
    /\ rpc = "open"
    /\ rpc' = "scan"
    /\ UNCHANGED <<scanned, rec, rfailed, rlog, rret>>
    /\ UNCHANGED mainVars

\* line 40 raises (file missing, permission denied); lines 72-89
RpdOpenFails ==
    /\ rpc = "open"
    /\ rfailed' = TRUE
    /\ rlog' = rlog + 1
    /\ rret' = HeaderData(rec)
    /\ rpc' = "returned"
    /\ UNCHANGED <<scanned, rec>>
    /\ UNCHANGED mainVars

\* lines 41-70: the file yields one more line
RpdLine ==
    /\ rpc = "scan"
    /\ Len(scanned) < MaxLines
    /\ \E line \in HeaderLines :
          /\ scanned' = Append(scanned, line)
          /\ rec' = ProcessLine(rec, line)
    /\ UNCHANGED <<rpc, rfailed, rlog, rret>>
    /\ UNCHANGED mainVars

\* A plausible slip: the except clause resets every field.
RpdReadFails_AllSentinel ==
    /\ rpc = "scan"
    /\ rfailed' = TRUE
    /\ rlog' = rlog + 1
    /\ rec' = InitialRec
    /\ rret' = HeaderData(InitialRec)
    /\ rpc' = "returned"
    /\ UNCHANGED <<scanned>>
    /\ UNCHANGED mainVars

\* line 41 raises while reading on (a decode error); lines 72-89
RpdReadFails ==
    /\ rpc = "scan"
    /\ rfailed' = TRUE
    /\ rlog' = rlog + 1
    /\ rret' = HeaderData(rec)
    /\ rpc' = "returned"
    /\ UNCHANGED <<scanned, rec>>
    /\ UNCHANGED mainVars

\* line 41: end of file; lines 77-89
RpdEOF ==
    /\ rpc = "scan"
    /\ rret' = HeaderData(rec)
    /\ rpc' = "returned"
    /\ UNCHANGED <<scanned, rec, rfailed, rlog>>
    /\ UNCHANGED mainVars

RpdIdle ==
    /\ rpc = "idle"
    /\ scanned = <<>>
    /\ rec = InitialRec
    /\ rfailed = FALSE
    /\ rlog = 0
    /\ rret = <<>>

-----------------------------------------------------------------------------
(* The environment of main: paths, the filesystem, the flight analyzer *)

pa == <<"a", ".", "i", "g", "c">>
pb == <<"d", "/", "b", ".", "i", "g", "c">>
pm == <<"m", ".", "i", "g", "c">>
Paths == {pa, pb, pm}

\* The filesystems considered: pm never exists.
FileSystems == {{}, {pa}, {pa, pb}}

\* An epoch-second value; inrange is whether datetime.fromtimestamp accepts it
\* (it raises OverflowError/OSError/ValueError for a value it cannot represent).
Ts(s) == [inrange |-> TRUE, secs |-> s]
BadTs == [inrange |-> FALSE, secs |-> 0]

\* The i-th segment (thermal or glide) of a flight, with its accessors' values
GoodSeg(i) ==
    [enter |-> Ts(100 * i), exit |-> Ts(100 * i + 3661), time_change |-> 3661,
     metric1 |-> 10 * i, metric2 |-> i, metric3 |-> i + 1]
BadSeg ==
    [enter |-> Ts(0), exit |-> BadTs, time_change |-> 0,
     metric1 |-> 0, metric2 |-> 0, metric3 |-> 0]

RECURSIVE GoodSegs(_)
GoodSegs(n) == IF n = 0 THEN <<>> ELSE Append(GoodSegs(n - 1), GoodSeg(n))

SegSeqs == {GoodSegs(n) : n \in 0..MaxSegs} \cup {<<BadSeg>>}

NoFlight ==
    [valid |-> FALSE, notes |-> <<>>, takeoff |-> BadTs, landing |-> BadTs,
     alts |-> <<>>, thermals |-> <<>>, glides |-> <<>>]

ValidFlights ==
    {[valid |-> TRUE, notes |-> <<>>, takeoff |-> Ts(0), landing |-> Ts(3661),
      alts |-> <<120, 250, 90>>, thermals |-> th, glides |-> gl] :
        th \in SegSeqs, gl \in SegSeqs}
    \cup
    {[valid |-> TRUE, notes |-> <<>>, takeoff |-> Ts(0), landing |-> l,
      alts |-> <<>>, thermals |-> <<>>, glides |-> <<>>] :
        l \in {Ts(86399), BadTs}}

InvalidFlights ==
    {[valid |-> FALSE, notes |-> <<"n", "o">>, takeoff |-> BadTs,
      landing |-> BadTs, alts |-> <<>>, thermals |-> th, glides |-> <<>>] :
        th \in {GoodSegs(0), GoodSegs(1)}}

\* What Flight.create_from_file(path) does: raise an error whose str() is err,
\* or return a flight object.
Outcomes ==
    {[kind |-> "raise", err |-> e, flight |-> NoFlight] :
        e \in {<<>>, <<"b", "a", "d">>}}
    \cup
    {[kind |-> "flight", err |-> <<>>, flight |-> f] :
        f \in ValidFlights \cup InvalidFlights}

MissingOutcome == [kind |-> "raise", err |-> <<"b", "a", "d">>, flight |-> NoFlight]

\* What open()/iteration gives read_pilot_data for each path: the lines read,
\* and whether the read then failed.
HeaderFile(p) ==
    IF p = pa
    THEN [lines |-> <<K_HFPLTPILOTINCHARGE \o Colon \o V_Al \o NL,
                      K_HFGTYGLIDERTYPE \o Colon \o V_G1 \o NL>>,
          fails |-> FALSE]
    ELSE [lines |-> <<K_HFPLTPILOTINCHARGE \o Colon \o V_Bo \o NL>>,
          fails |-> TRUE]

RECURSIVE SeqsOfLen(_, _)
SeqsOfLen(S, n) ==
    IF n = 0 THEN {<<>>}
    ELSE {Append(s, x) : s \in SeqsOfLen(S, n - 1), x \in S}

SeqsUpTo(S, n) == UNION {SeqsOfLen(S, k) : k \in 0..n}

-----------------------------------------------------------------------------
(* Helpers of main *)

EndsWith(s, suffix) ==
    /\ Len(s) >= Len(suffix)
    /\ SubSeq(s, Len(s) - Len(suffix) + 1, Len(s)) = suffix

\* glob.glob("*.igc"): the existing names of the current directory ending in
\* .igc (not hidden), in an order the filesystem decides
GlobResults(files) ==
    LET M == {p \in files : /\ ~Contains(p, "/")
                            /\ EndsWith(p, <<".", "i", "g", "c">>)
                            /\ ~StartsWith(p, ".")}
        n == Cardinality(M)
    IN  {s \in SeqsOfLen(M, n) : \A i, j \in 1..n : s[i] = s[j] => i = j}

RECURSIVE ExistingFiles_Prepend(_, _)
\* A plausible slip: inserts at the front, reversing the order.
ExistingFiles_Prepend(files, exist) ==
    IF files = <<>> THEN <<>>
    ELSE IF Head(files) \in exist
         THEN ExistingFiles_Prepend(Tail(files), exist) \o <<Head(files)>>
         ELSE ExistingFiles_Prepend(Tail(files), exist)

RECURSIVE ExistingFiles(_, _)
\* lines 101-108: existing_files after the partition loop
ExistingFiles(files, exist) ==
    IF files = <<>> THEN <<>>
    ELSE IF Head(files) \in exist
         THEN <<Head(files)>> \o ExistingFiles(Tail(files), exist)
         ELSE ExistingFiles(Tail(files), exist)

RECURSIVE MissingFiles(_, _)
\* lines 102-108: missing_files after the partition loop
MissingFiles(files, exist) ==
    IF files = <<>> THEN <<>>
    ELSE IF Head(files) \in exist
         THEN MissingFiles(Tail(files), exist)
         ELSE <<Head(files)>> \o MissingFiles(Tail(files), exist)

RECURSIVE Join(_, _)
\* sep.join(strs)
Join(strs, sep) ==
    IF strs = <<>> THEN <<>>
    ELSE IF Len(strs) = 1 THEN strs[1]
    ELSE strs[1] \o sep \o Join(Tail(strs), sep)

RECURSIVE Basename(_)
\* Path(p).name: what follows the last "/"
Basename(p) ==
    LET i == Find(p, "/", 1)
    IN  IF i = 0 THEN p ELSE Basename(SubSeq(p, i + 1, Len(p)))

DigitChar(d) == <<"0", "1", "2", "3", "4", "5", "6", "7", "8", "9">>[d + 1]

RECURSIVE DecStr(_)
DecStr(n) == IF n < 10 THEN <<DigitChar(n)>> ELSE DecStr(n \div 10) \o <<DigitChar(n % 10)>>

\* f"{n:02d}"
Fmt02d(n) == IF n < 10 THEN <<"0">> \o DecStr(n) ELSE DecStr(n)

\* lines 10-16 (and 163-166): seconds as HH:MM:SS
format_duration(seconds) ==
    Fmt02d(seconds \div 3600) \o <<":">> \o Fmt02d((seconds % 3600) \div 60)
        \o <<":">> \o Fmt02d(seconds % 60)

RECURSIVE MaxOf(_)
MaxOf(s) ==
    IF Len(s) = 1 THEN s[1]
    ELSE LET m == MaxOf(Tail(s)) IN IF Head(s) > m THEN Head(s) ELSE m

\* lines 18-22
get_max_alt(f) == IF f.alts # <<>> THEN MaxOf(f.alts) ELSE 0

\* datetime.fromtimestamp(ts).strftime("%d/%m/%Y %H:%M:%S"), left unformatted
Strftime(ts) == [strftime |-> "%d/%m/%Y %H:%M:%S", secs |-> ts.secs]

\* value formatted with a float format such as .2f, left unformatted
FmtFloat(spec, v) == [format |-> spec, value |-> v]

\* tabulate(tabular_data, headers=...): each element of tabular_data is
\* iterated and becomes one row; what iterating yields are the row's cells.
\* (Iterating a list yields its elements, iterating a str its characters.)
Tabulate(tabular_data) == [i \in 1..Len(tabular_data) |-> tabular_data[i]]

\* One print call (or, for an indented table, the prints of its lines)
TextLine(i, fmt, arg) ==
    [kind |-> "line", file |-> i, fmt |-> fmt, arg |-> arg, headers |-> <<>>,
     rows |-> <<>>, indent |-> 0]
TableOut(i, headers, tabular_data, indent) ==
    [kind |-> "table", file |-> i, fmt |-> "", arg |-> <<>>, headers |-> headers,
     rows |-> Tabulate(tabular_data), indent |-> indent]

\* line 149
ExceptionHeaders ==
    <<"File", "Status", "Takeoff", "Landing", "Duration", "Max Alt (m)",
      "Thermals", "Glides", "Notes/Exception">>
\* line 205
FlightHeaders ==
    <<"File", "Status", "Takeoff", "Landing", "Duration", "Max Alt (m)",
      "Thermals", "Glides", "Notes">>
\* line 209
PilotHeaders ==
    <<"Pilot", "Glider", "Class", "Site", "Device", "Sensor", "Firmware",
      "GPS Datum", "Pressure Datum">>
\* line 239
ThermalHeaders ==
    <<"Start Time", "End Time", "Duration", "Alt Gain (m)", "Avg Vario (m/s)">>
\* line 268
GlideHeaders ==
    <<"Start Time", "End Time", "Duration", "Distance (km)", "Avg Speed (km/h)",
      "Glide Ratio">>

\* lines 136-146
ExceptionData(file_path, e) ==
    <<file_path, S_Exception, S_Empty, S_Empty, S_Empty, S_Empty, S_Empty,
      S_Empty, e>>

\* A plausible slip: the counts of an invalid flight taken from the collections.
FlightData_CountsSegments(name, f) ==
    IF f.valid
    THEN <<name, S_Valid, Strftime(f.takeoff), Strftime(f.landing),
           format_duration(f.landing.secs - f.takeoff.secs), get_max_alt(f),
           Len(f.thermals), Len(f.glides), S_Empty>>
    ELSE <<name, S_Invalid, NA, NA, NA, NA, Len(f.thermals), Len(f.glides),
           f.notes>>

\* lines 154-202: flight_data for an analysed flight
FlightData(name, f) ==
    IF f.valid
    THEN <<name, S_Valid, Strftime(f.takeoff), Strftime(f.landing),
           format_duration(f.landing.secs - f.takeoff.secs), get_max_alt(f),
           Len(f.thermals), Len(f.glides), S_Empty>>
    ELSE <<name, S_Invalid, NA, NA, NA, NA, 0, 0, f.notes>>

\* A plausible slip: `and` for `or`.
SkipSegments_And(long, valid) == ~long /\ ~valid

\* line 216
SkipSegments(long, valid) == ~long \/ ~valid

\* lines 223-235
ThermalRow(t) ==
    <<Strftime(t.enter), Strftime(t.exit), format_duration(t.time_change),
      FmtFloat(".1f", t.metric1), FmtFloat(".2f", t.metric2)>>

\* lines 250-264
GlideRow(g) ==
    <<Strftime(g.enter), Strftime(g.exit), format_duration(g.time_change),
      FmtFloat(".2f", g.metric1), FmtFloat(".2f", g.metric2),
      FmtFloat(".2f", g.metric3)>>

\* some timestamp of the segments makes datetime.fromtimestamp raise
SegmentsRaise(segs) ==
    \E k \in DOMAIN segs : ~segs[k].enter.inrange \/ ~segs[k].exit.inrange

\* lines 220-244: what the thermal section prints
ThermalOutput(i, thermals) ==
    IF thermals # <<>>
    THEN LET thermal_data == [k \in 1..Len(thermals) |-> ThermalRow(thermals[k])]
         IN  IF thermal_data # <<>>
             THEN <<TextLine(i, "\n\tThermals:", <<>>),
                    TableOut(i, ThermalHeaders, thermal_data, 2)>>
             ELSE <<TextLine(i, "\n\tNo thermals found", <<>>)>>
    ELSE <<>>

\* lines 247-273: what the glide section prints
GlideOutput(i, glides) ==
    IF glides # <<>>
    THEN LET glide_data == [k \in 1..Len(glides) |-> GlideRow(glides[k])]
         IN  IF glide_data # <<>>
             THEN <<TextLine(i, "\n\tGlides:", <<>>),
                    TableOut(i, GlideHeaders, glide_data, 2)>>
             ELSE <<TextLine(i, "\n\tNo glides found", <<>>)>>
    ELSE <<>>

-----------------------------------------------------------------------------
(* main *)

MainIdle ==
    /\ argsFiles = <<>>
    /\ argsLong = FALSE
    /\ fs = {}
    /\ analyzer = [p \in Paths |-> MissingOutcome]
    /\ pc = "idle"
    /\ igc_files = <<>>
    /\ idx = 0
    /\ flight = NoFlight
    /\ pilot_data = <<>>
    /\ filename = <<>>
    /\ out = <<>>

\* lines 92-96: the parsed command line, in some environment
Init ==
    /\ argsFiles \in SeqsUpTo(Paths, MaxFiles)
    /\ argsLong \in BOOLEAN
    /\ fs \in FileSystems
    /\ analyzer \in [Paths -> Outcomes]
    /\ \A p \in Paths \ fs : analyzer[p] = MissingOutcome
    /\ pc = "select"
    /\ igc_files = <<>>
    /\ idx = 0
    /\ flight = NoFlight
    /\ pilot_data = <<>>
    /\ filename = <<>>
    /\ out = <<>>
    /\ RpdIdle

\* lines 99-118: explicit paths were given
SelectExplicit ==
    /\ pc = "select"
    /\ argsFiles # <<>>
    /\ LET existing_files == ExistingFiles(argsFiles, fs)
           missing_files == MissingFiles(argsFiles, fs)
           warning ==
               IF missing_files # <<>>
               THEN <<TextLine(0, "Warning: The following files were not found and will be skipped: {}",
                               Join(missing_files, <<",", " ">>))>>
               ELSE <<>>
       IN  IF existing_files = <<>>
           THEN /\ out' = out \o warning
                            \o <<TextLine(0, "No existing files to process", <<>>)>>
                /\ pc' = "done"
                /\ UNCHANGED <<igc_files, idx>>
           ELSE /\ out' = out \o warning
                /\ igc_files' = existing_files
                /\ idx' = 1
                /\ pc' = "loop"
    /\ UNCHANGED <<argsFiles, argsLong, fs, analyzer, flight, pilot_data, filename>>
    /\ UNCHANGED rpdVars

\* lines 120-125: no path given, the current directory is globbed
SelectGlob ==
    /\ pc = "select"
    /\ argsFiles = <<>>
    /\ \E g \in GlobResults(fs) :
          /\ igc_files' = g
          /\ IF g = <<>>
             THEN /\ out' = Append(out, TextLine(0, "No IGC files found in current directory", <<>>))
                  /\ pc' = "done"
                  /\ idx' = idx
             ELSE /\ out' = out
                  /\ idx' = 1
                  /\ pc' = "loop"
    /\ UNCHANGED <<argsFiles, argsLong, fs, analyzer, flight, pilot_data, filename>>
    /\ UNCHANGED rpdVars

\* lines 127-151: Flight.create_from_file raises; the except clause prints
\* tabulate(flight_data, ...) and continues with the next file
AnalyzeRaises ==
    /\ pc = "loop"
    /\ idx <= Len(igc_files)
    /\ analyzer[igc_files[idx]].kind = "raise"
    /\ LET file_path == igc_files[idx]
           flight_data == ExceptionData(file_path, analyzer[file_path].err)
       IN  out' = Append(out, TableOut(idx, ExceptionHeaders, flight_data, 0))
    /\ idx' = idx + 1
    /\ UNCHANGED <<argsFiles, argsLong, fs, analyzer, pc, igc_files, flight,
                   pilot_data, filename>>
    /\ UNCHANGED rpdVars

\* lines 127-132: the try block completes
AnalyzeReturns ==
    /\ pc = "loop"
    /\ idx <= Len(igc_files)
    /\ analyzer[igc_files[idx]].kind = "flight"
    /\ LET file_path == igc_files[idx]
           hf == HeaderFile(file_path)
       IN  /\ flight' = analyzer[file_path].flight
           /\ pilot_data' = ReadPilotData(hf.lines)
           /\ out' = IF hf.fails
                     THEN Append(out, TextLine(idx, "Error reading header: {}", <<>>))
                     ELSE out
           /\ filename' = Basename(file_path)
    /\ pc' = "summary"
    /\ UNCHANGED <<argsFiles, argsLong, fs, analyzer, igc_files, idx>>
    /\ UNCHANGED rpdVars

\* lines 157-158: datetime.fromtimestamp raises; nothing catches it
SummaryRaises ==
    /\ pc = "summary"
    /\ flight.valid
    /\ ~flight.takeoff.inrange \/ ~flight.landing.inrange
    /\ pc' = "crashed"
    /\ UNCHANGED <<argsFiles, argsLong, fs, analyzer, igc_files, idx, flight,
                   pilot_data, filename, out>>
    /\ UNCHANGED rpdVars

\* lines 153-217: the flight row and the pilot row are printed
Summarize ==
    /\ pc = "summary"
    /\ flight.valid => (flight.takeoff.inrange /\ flight.landing.inrange)
    /\ out' = out \o <<TableOut(idx, FlightHeaders, <<FlightData(filename, flight)>>, 0),
                       TableOut(idx, PilotHeaders, <<pilot_data>>, 1)>>
    /\ IF SkipSegments(argsLong, flight.valid)
       THEN /\ idx' = idx + 1
            /\ pc' = "loop"
       ELSE /\ idx' = idx
            /\ pc' = "thermals"
    /\ UNCHANGED <<argsFiles, argsLong, fs, analyzer, igc_files, flight,
                   pilot_data, filename>>
    /\ UNCHANGED rpdVars

\* lines 222-224: datetime.fromtimestamp raises in the thermal loop
ThermalsRaise ==
    /\ pc = "thermals"
    /\ SegmentsRaise(flight.thermals)
    /\ pc' = "crashed"
    /\ UNCHANGED <<argsFiles, argsLong, fs, analyzer, igc_files, idx, flight,
                   pilot_data, filename, out>>
    /\ UNCHANGED rpdVars

\* lines 219-244
ThermalSection ==
    /\ pc = "thermals"
    /\ ~SegmentsRaise(flight.thermals)
    /\ out' = out \o ThermalOutput(idx, flight.thermals)
    /\ pc' = "glides"
    /\ UNCHANGED <<argsFiles, argsLong, fs, analyzer, igc_files, idx, flight,
                   pilot_data, filename>>
    /\ UNCHANGED rpdVars

\* lines 249-251: datetime.fromtimestamp raises in the glide loop
GlidesRaise ==
    /\ pc = "glides"
    /\ SegmentsRaise(flight.glides)
    /\ pc' = "crashed"
    /\ UNCHANGED <<argsFiles, argsLong, fs, analyzer, igc_files, idx, flight,
                   pilot_data, filename, out>>
    /\ UNCHANGED rpdVars

\* lines 246-273
GlideSection ==
    /\ pc = "glides"
    /\ ~SegmentsRaise(flight.glides)
    /\ out' = out \o GlideOutput(idx, flight.glides)
    /\ pc' = "blank"
    /\ UNCHANGED <<argsFiles, argsLong, fs, analyzer, igc_files, idx, flight,
                   pilot_data, filename>>
    /\ UNCHANGED rpdVars

\* lines 275-276: print(), then the next iteration
BlankLine ==
    /\ pc = "blank"
    /\ out' = Append(out, TextLine(idx, "", <<>>))
    /\ idx' = idx + 1
    /\ pc' = "loop"
    /\ UNCHANGED <<argsFiles, argsLong, fs, analyzer, igc_files, flight,
                   pilot_data, filename>>
    /\ UNCHANGED rpdVars

\* line 127: the for loop is exhausted and main returns
LoopEnd ==
    /\ pc = "loop"
    /\ idx > Len(igc_files)
    /\ pc' = "done"
    /\ UNCHANGED <<argsFiles, argsLong, fs, analyzer, igc_files, idx, flight,
                   pilot_data, filename, out>>
    /\ UNCHANGED rpdVars

Next ==
    \/ SelectExplicit
    \/ SelectGlob
    \/ AnalyzeRaises
    \/ AnalyzeReturns
    \/ SummaryRaises
    \/ Summarize
    \/ ThermalsRaise
    \/ ThermalSection
    \/ GlidesRaise
    \/ GlideSection
    \/ BlankLine
    \/ LoopEnd

Spec == Init /\ [][Next]_vars

-----------------------------------------------------------------------------
(* read_pilot_data on its own *)

InitRPD ==
    /\ MainIdle
    /\ rpc = "open"
    /\ scanned = <<>>
    /\ rec = InitialRec
    /\ rfailed = FALSE
    /\ rlog = 0
    /\ rret = <<>>

NextRPD ==
    \/ RpdOpen
    \/ RpdOpenFails
    \/ RpdLine
    \/ RpdReadFails
    \/ RpdEOF

SpecRPD == InitRPD /\ [][NextRPD]_vars

-----------------------------------------------------------------------------
(* Vocabulary of the properties *)

Files == 1..Len(igc_files)

\* what the analyzer does for the i-th file of the selection
OutcomeOf(i) == analyzer[igc_files[i]]

\* the i-th file's iteration has run to its end (a continue or the loop's end)
Finished(i) == i < idx

ItemsOf(i) == {k \in DOMAIN out : out[k].file = i}
TablesOf(i, headers) ==
    {k \in ItemsOf(i) : out[k].kind = "table" /\ out[k].headers = headers}
SummaryTables(i) == TablesOf(i, FlightHeaders) \cup TablesOf(i, ExceptionHeaders)
RowsOf(K) == UNION {{<<k, r>> : r \in DOMAIN out[k].rows} : k \in K}

SegmentTexts ==
    {"\n\tThermals:", "\n\tNo thermals found", "\n\tGlides:", "\n\tNo glides found"}
IsSegmentItem(it) ==
    \/ it.kind = "table" /\ it.headers \in {ThermalHeaders, GlideHeaders}
    \/ it.kind = "line" /\ it.fmt \in SegmentTexts
HasText(i, fmt) == \E k \in ItemsOf(i) : out[k].kind = "line" /\ out[k].fmt = fmt
BlankLines(i) == {k \in ItemsOf(i) : out[k].kind = "line" /\ out[k].fmt = ""}

InFs(p) == p \in fs
NotInFs(p) == p \notin fs
Warnings ==
    {k \in DOMAIN out :
        /\ out[k].kind = "line"
        /\ out[k].fmt = "Warning: The following files were not found and will be skipped: {}"}
TableItems == {k \in DOMAIN out : out[k].kind = "table"}

\* s without its leading and trailing whitespace, as a slice of s
Trimmed(s) ==
    IF \A i \in DOMAIN s : s[i] \in Whitespace THEN <<>>
    ELSE LET lo == CHOOSE i \in DOMAIN s :
                     s[i] \notin Whitespace /\ \A j \in 1..(i - 1) : s[j] \in Whitespace
             hi == CHOOSE i \in DOMAIN s :
                     s[i] \notin Whitespace /\ \A j \in (i + 1)..Len(s) : s[j] \in Whitespace
         IN  SubSeq(s, lo, hi)

\* the positions of t that hold its first colon (none or one)
FirstColon(t) == {c \in DOMAIN t : t[c] = ":" /\ \A j \in 1..(c - 1) : t[j] # ":"}

\* How a trimmed line t reads as a header record: whether it starts with H
\* and has a colon; the text before its first colon; the trimmed text after it
TrimmedRecord(t) ==
    IF t # <<>> /\ t[1] = "H" /\ FirstColon(t) # {}
    THEN CHOOSE r \in {[header |-> TRUE, key |-> SubSeq(t, 1, c - 1),
                        value |-> Trimmed(SubSeq(t, c + 1, Len(t)))] :
                            c \in FirstColon(t)} : TRUE
    ELSE [header |-> FALSE, key |-> <<>>, value |-> <<>>]

\* How a line reads as a header record, once trimmed
HeaderRecord(line) == CHOOSE r \in {TrimmedRecord(t) : t \in {Trimmed(line)}} : TRUE

\* the line, trimmed, starts with H, has a colon, and is keyed exactly by key
Qualifies(line, key) == HeaderRecord(line).header /\ HeaderRecord(line).key = key

\* the trimmed text after the first colon of the trimmed line
ValueOf(line) == HeaderRecord(line).value

\* for each key of keys, the value of the last of the header records R that
\* is keyed by it, else the sentinel
LastValues(R, keys) ==
    [k \in DOMAIN keys |->
        IF \A i \in DOMAIN R : ~(R[i].header /\ R[i].key = keys[k]) THEN NA
        ELSE R[CHOOSE i \in DOMAIN R :
                  /\ R[i].header /\ R[i].key = keys[k]
                  /\ \A j \in (i + 1)..Len(R) : ~(R[j].header /\ R[j].key = keys[k])].value]

\* for each key of keys, the value of the last line of lines that qualifies
\* for it, else the sentinel
ExpectedFields(lines, keys) ==
    CHOOSE v \in {LastValues(R, keys) :
                    R \in {[i \in DOMAIN lines |-> HeaderRecord(lines[i])]}} : TRUE

\* the key of each position of the returned list
KeyAt ==
    <<K_HFPLTPILOTINCHARGE, K_HFGTYGLIDERTYPE, K_HOCCLCOMPETITION_CLASS,
      K_HOSITSite, K_HFFTYFRTYPE, K_HFPRSPRESSALTSENSOR, K_HFRFWFIRMWAREVERSION,
      K_HODTM100GPSDATUM, K_HFALPALTPRESSURE>>

-----------------------------------------------------------------------------
(* Properties *)

\* C1: when main has returned, every file of the resolved selection has
\* exactly one flight-summary row and exactly one pilot/equipment record in
\* the output.
C1_OneRowAndOnePilotRecordPerFile ==
    pc = "done" =>
        \A i \in Files :
            /\ Cardinality(RowsOf(SummaryTables(i))) = 1
            /\ Cardinality(RowsOf(TablesOf(i, PilotHeaders))) = 1

\* C2: no failure in one file's handling ends the batch: when main has
\* ended, whether by returning or by an exception nothing caught, no file of
\* the selection after the one last handled is left unprocessed.
C2_NoFailureEndsTheBatch ==
    pc \in {"done", "crashed"} => \A i \in Files : i <= idx

\* C3: with explicit paths, the selection is the sub-sequence of the given
\* paths that exist, in the order given; at most one warning is printed, it
\* is printed exactly when some path is missing, it names exactly the missing
\* paths and precedes every table; every table is for an existing path; and
\* when no given path exists, main returns after a terminal message with no
\* table printed.
C3_ExplicitSelection ==
    (argsFiles # <<>> /\ pc # "select") =>
        LET existing == SelectSeq(argsFiles, InFs)
            missing == SelectSeq(argsFiles, NotInFs)
        IN  /\ existing # <<>> => igc_files = existing
            /\ Cardinality(Warnings) <= 1
            /\ (Warnings # {}) <=> (missing # <<>>)
            /\ \A w \in Warnings :
                  /\ out[w].arg = Join(missing, <<",", " ">>)
                  /\ \A k \in TableItems : w < k
            /\ \A k \in TableItems :
                  /\ out[k].file \in 1..Len(existing)
                  /\ existing[out[k].file] \in fs
            /\ existing = <<>> =>
                  /\ pc = "done"
                  /\ TableItems = {}
                  /\ out[Len(out)] = TextLine(0, "No existing files to process", <<>>)

\* C3 witness: a missing path was given before an existing one, and main
\* has returned with the warning and a table for the existing path.
C3_Witness ==
    /\ pc = "done"
    /\ argsFiles = <<pm, pa>>
    /\ igc_files = <<pa>>
    /\ Warnings # {}
    /\ TableItems # {}

\* C4: for every file whose analysis raised, exactly one table is printed:
\* it has the flight-row headers and a single row holding the file path,
\* Exception, six empty fields and the non-empty error text; no pilot table
\* and no segment output is printed for the file.
C4_ExceptionRow ==
    \A i \in Files :
        (Finished(i) /\ OutcomeOf(i).kind = "raise") =>
            LET T == {k \in ItemsOf(i) : out[k].kind = "table"}
            IN  /\ Cardinality(T) = 1
                /\ \A k \in ItemsOf(i) : ~IsSegmentItem(out[k])
                /\ OutcomeOf(i).err # <<>>
                /\ \A k \in T :
                      /\ out[k].headers = FlightHeaders
                      /\ Len(out[k].rows) = 1
                      /\ out[k].rows[1] =
                            <<igc_files[i], S_Exception, <<>>, <<>>, <<>>, <<>>,
                              <<>>, <<>>, OutcomeOf(i).err>>

\* C5: for every file analysed as an invalid flight, the flight-summary row
\* has status Invalid, takeoff, landing, duration and max altitude N/A,
\* thermal and glide counts 0, and the analyzer's notes.
C5_InvalidRow ==
    \A i \in Files :
        (Finished(i) /\ OutcomeOf(i).kind = "flight" /\ ~OutcomeOf(i).flight.valid) =>
            LET T == TablesOf(i, FlightHeaders)
            IN  /\ Cardinality(T) = 1
                /\ \A k \in T :
                      /\ Len(out[k].rows) = 1
                      /\ Len(out[k].rows[1]) = 9
                      /\ out[k].rows[1][2] = S_Invalid
                      /\ out[k].rows[1][3] = NA
                      /\ out[k].rows[1][4] = NA
                      /\ out[k].rows[1][5] = NA
                      /\ out[k].rows[1][6] = NA
                      /\ out[k].rows[1][7] = 0
                      /\ out[k].rows[1][8] = 0
                      /\ out[k].rows[1][9] = OutcomeOf(i).flight.notes

\* C5 witness: an invalid flight whose thermal collection is not empty has
\* had its row printed.
C5_Witness ==
    \E i \in Files :
        /\ Finished(i)
        /\ OutcomeOf(i).kind = "flight"
        /\ ~OutcomeOf(i).flight.valid
        /\ OutcomeOf(i).flight.thermals # <<>>
        /\ OutcomeOf(i).flight.notes # <<>>
        /\ TablesOf(i, FlightHeaders) # {}

\* C6: segment output (a thermal or glide title, table or notice) is printed
\* for a file only if --long was given and the file's flight is valid.
C6_SegmentsOnlyIfLongAndValid ==
    \A k \in DOMAIN out :
        IsSegmentItem(out[k]) =>
            /\ argsLong
            /\ OutcomeOf(out[k].file).kind = "flight"
            /\ OutcomeOf(out[k].file).flight.valid

\* C6 witness: main has returned; with --long an invalid flight that has
\* thermals was reported, and so was a valid flight, whose thermal table
\* was printed.
C6_Witness ==
    /\ pc = "done"
    /\ \E i \in Files :
          /\ OutcomeOf(i).kind = "flight"
          /\ ~OutcomeOf(i).flight.valid
          /\ OutcomeOf(i).flight.thermals # <<>>
          /\ argsLong
    /\ \E j \in Files : TablesOf(j, ThermalHeaders) # {}

\* C7: with --long, for every valid flight whose thermal (glide) collection
\* is empty, the "No thermals found" ("No glides found") notice is printed.
C7_NoneFoundNotice ==
    \A i \in Files :
        (Finished(i) /\ argsLong /\ OutcomeOf(i).kind = "flight"
           /\ OutcomeOf(i).flight.valid) =>
            /\ OutcomeOf(i).flight.thermals = <<>> => HasText(i, "\n\tNo thermals found")
            /\ OutcomeOf(i).flight.glides = <<>> => HasText(i, "\n\tNo glides found")

C10_BlankLineAfterEveryFile ==
    pc = "done" =>
        \A i \in Files :
            /\ Cardinality(BlankLines(i)) = 1
            /\ \A b \in BlankLines(i) : \A k \in ItemsOf(i) : k <= b

=============================================================================
